---- MODULE Spec2Model ----
(***************************************************************************)
(* Model of src/gateway/ws_client_ext.rs: the five gateway commands that   *)
(* `impl WebSocketGatewayClientExt for WsStream` encodes as JSON frames    *)
(* and hands to the connection's send_json.                                *)
(*                                                                         *)
(* JSON values are tagged so that an absent key, null, a number and a      *)
(* string never coincide: JNull, JNum(n), JStr(s), JBool(b), JArr(seq);    *)
(* a JSON object is a function from its keys to JSON values, so that       *)
(* DOMAIN obj is the set of keys present in the body.                      *)
(***************************************************************************)
EXTENDS Integers, Sequences, FiniteSets, TLC

VARIABLES
    shard_info,   \* the shard label the owner of this connection passes
    clock,        \* the wall clock SystemTime::now() reads
    pc,           \* "idle", or "awaiting" while a call is suspended at
                  \* send_json(..).await
    calls,        \* number of calls whose body has started to run (a call's
                  \* future does nothing before it is first polled)
    lastCall,     \* the arguments of the most recent call
    lastFrame,    \* the payload that call handed to send_json
    lastReport,   \* what the transport's send reported for it, None so far
    lastResult,   \* what the call returned to its caller: None while it is
                  \* suspended or when its future was dropped, Panic(..) when
                  \* it unwound
    requests,     \* call numbers, in the order send_json was invoked
    output,       \* call numbers whose frame reached the transport's output
    prevPresence  \* history: the clock reading and `since` of the call before
                  \* the last one, when both are send_presence_update calls
                  \* with identical input

vars == <<shard_info, clock, pc, calls, lastCall, lastFrame, lastReport,
          lastResult, requests, output, prevPresence>>

----------------------------------------------------------------------------
(* Bounds of the exploration *)

MaxCalls == 2
MaxSecs == 0

----------------------------------------------------------------------------
(* Rust's Option and Result *)

None == [none |-> TRUE]
Some(x) == [some |-> x]
IsSome(o) == "some" \in DOMAIN o

Ok == [ok |-> TRUE]
Err(e) == [err |-> e]
IsErr(r) == "err" \in DOMAIN r
Panic(msg) == [panic |-> msg]
IsPanic(r) == "panic" \in DOMAIN r

----------------------------------------------------------------------------
(* serde_json values as built by json! *)

JNull == [null |-> TRUE]
JNum(n) == [num |-> n]
JStr(s) == [str |-> s]
JBool(b) == [bool |-> b]
JArr(seq) == [arr |-> seq]

\* payload["d"][key] = val : inserts the key, or overwrites it
JsonInsert(obj, key, val) ==
    [k \in DOMAIN obj \cup {key} |-> IF k = key THEN val ELSE obj[k]]

\* Option<u64> / Option<&str> inside json!: None serialises as null
JOptNum(o) == IF IsSome(o) THEN JNum(o.some) ELSE JNull
JOptStr(o) == IF IsSome(o) THEN JStr(o.some) ELSE JNull

----------------------------------------------------------------------------
(* Input domains *)

Shards == {<<0, 1>>, <<1, 2>>}
GuildIds == {7, 1907}
Limits == {None, Some(5)}
Nonces == {None, Some("n1")}
Queries == {"abc"}
UserId(n) == [raw |-> n]
UserIdLists ==
    {<<>>, <<UserId(2), UserId(1)>>, <<UserId(1), UserId(1)>>,
     <<UserId(3), UserId(1), UserId(2)>>}
ChunkGuildFilter ==
    {[tag |-> "None"]}
    \cup {[tag |-> "Query", query |-> q] : q \in Queries}
    \cup {[tag |-> "UserIds", user_ids |-> ids] : ids \in UserIdLists}
Seqs == {None, Some(0), Some(42)}
Tokens == {"", "tok"}
Intents == {0, 513}
SessionIds == {"sess-1"}
ResumeSeqs == {0, 7}
OnlineStatus == {"DoNotDisturb", "Idle", "Invisible", "Offline", "Online"}
Statuses == {"DoNotDisturb", "Idle", "Online"}
Activities ==
    {[name |-> "chess", kind |-> 0, url |-> None],
     [name |-> "live", kind |-> 1, url |-> Some("https://t.tv/x")]}
CurrentPresence ==
    {<<a, s>> : a \in {None} \cup {Some(x) : x \in Activities}, s \in Statuses}
\* readings of the wall clock as seconds and nanoseconds relative to the Unix
\* epoch; the clock of a host can be set before 1970
SystemTime ==
    {[secs |-> -1, nanos |-> 0]}
    \cup {[secs |-> s, nanos |-> n] : s \in 0..MaxSecs, n \in {0, 500}}
TransportErrors == {"Closed", "Io"}
Outcomes == {Ok} \cup {Err(e) : e \in TransportErrors}

----------------------------------------------------------------------------
(* Collaborators outside ws_client_ext.rs *)

\* constants::OpCode::num
OpCodeNum(op) ==
    CASE op = "Heartbeat" -> 1
      [] op = "Identify" -> 2
      [] op = "StatusUpdate" -> 3
      [] op = "Resume" -> 6
      [] op = "GetGuildMembers" -> 8

USER_AGENT == "constants::USER_AGENT"
BROWSER_VERSION == "constants::BROWSER_VERSION"
LARGE_THRESHOLD == 250

\* OnlineStatus::name
StatusName(status) ==
    CASE status = "DoNotDisturb" -> "dnd"
      [] status = "Idle" -> "idle"
      [] status = "Invisible" -> "invisible"
      [] status = "Offline" -> "offline"
      [] status = "Online" -> "online"

\* SenderExt::send_json as the spec's transmit: the frame reaches the
\* transport's output when the send succeeds and not at all when it fails.
SendJsonOutput(out, n, outcome) ==
    IF outcome = Ok THEN Append(out, n) ELSE out

\* a send whose future is dropped while pending: the contract does not say
\* whether the frame still goes out
SendJsonDropped(out, n, delivered) ==
    IF delivered THEN Append(out, n) ELSE out

----------------------------------------------------------------------------
(* u64::to_string *)

Digit(n) ==
    CASE n = 0 -> "0" [] n = 1 -> "1" [] n = 2 -> "2" [] n = 3 -> "3"
      [] n = 4 -> "4" [] n = 5 -> "5" [] n = 6 -> "6" [] n = 7 -> "7"
      [] n = 8 -> "8" [] n = 9 -> "9"

RECURSIVE U64ToString(_)
U64ToString(n) ==
    IF n < 10 THEN Digit(n) ELSE U64ToString(n \div 10) \o Digit(n % 10)

----------------------------------------------------------------------------
(* send_chunk_guild *)

ChunkGuildBodyNoDefaults(guild_id, limit, nonce) ==
    LET base == [guild_id |-> JNum(guild_id)]
        withLimit == IF IsSome(limit)
                     THEN JsonInsert(base, "limit", JNum(limit.some)) ELSE base
    IN IF IsSome(nonce)
       THEN JsonInsert(withLimit, "nonce", JStr(nonce.some)) ELSE withLimit

\* the "d" object of the json! literal, before the filter is resolved
ChunkGuildBody(guild_id, limit, nonce) ==
    [guild_id |-> JStr(U64ToString(guild_id)),
     limit    |-> JNum(IF IsSome(limit) THEN limit.some ELSE 0),
     nonce    |-> JStr(IF IsSome(nonce) THEN nonce.some ELSE "")]

RECURSIVE DedupSorted(_)
DedupSorted(ids) ==
    IF ids = <<>> THEN <<>>
    ELSE LET m == CHOOSE x \in {ids[i] : i \in 1..Len(ids)} :
                      \A j \in 1..Len(ids) : x <= ids[j]
         IN <<m>> \o DedupSorted(SelectSeq(ids, LAMBDA y : y # m))

UserIdsRawSortedDedup(user_ids) ==
    DedupSorted([i \in 1..Len(user_ids) |-> user_ids[i].raw])

\* user_ids.iter().map(|x| x.0).collect::<Vec<u64>>()
UserIdsRaw(user_ids) ==
    [i \in 1..Len(user_ids) |-> user_ids[i].raw]

ResolveFilterNoneAbsent(d, filter) ==
    CASE filter.tag = "None" -> d
      [] filter.tag = "Query" -> JsonInsert(d, "query", JStr(filter.query))
      [] filter.tag = "UserIds" ->
            JsonInsert(JsonInsert(d, "query", JStr("")),
                       "user_ids", JArr(UserIdsRaw(filter.user_ids)))

\* match filter { ... }
ResolveFilter(d, filter) ==
    CASE filter.tag = "None" -> JsonInsert(d, "query", JStr(""))
      [] filter.tag = "Query" -> JsonInsert(d, "query", JStr(filter.query))
      [] filter.tag = "UserIds" ->
            JsonInsert(d, "user_ids", JArr(UserIdsRaw(filter.user_ids)))

ChunkGuildPayload(guild_id, limit, filter, nonce) ==
    [op |-> OpCodeNum("GetGuildMembers"),
     d  |-> ResolveFilter(ChunkGuildBody(guild_id, limit, nonce), filter)]

----------------------------------------------------------------------------
(* send_heartbeat *)

HeartbeatPayloadUnwrapOrZero(seq) ==
    [d |-> JNum(IF IsSome(seq) THEN seq.some ELSE 0),
     op |-> OpCodeNum("Heartbeat")]

HeartbeatPayload(seq) ==
    [d |-> JOptNum(seq), op |-> OpCodeNum("Heartbeat")]

----------------------------------------------------------------------------
(* send_identify *)

IdentifyProperties ==
    [os                 |-> JStr("Windows"),
     browser            |-> JStr("Chrome"),
     device             |-> JStr(""),
     system_locale      |-> JStr("en-US"),
     browser_user_agent |-> JStr(USER_AGENT),
     browser_version    |-> JStr(BROWSER_VERSION),
     os_version         |-> JStr("10"),
     referrer           |-> JStr(""),
     referring_domain   |-> JStr(""),
     release_channel    |-> JStr("stable")]

IdentifyPayloadWithIntents(shard, token, intents) ==
    [op |-> OpCodeNum("Identify"),
     d  |-> [token           |-> JStr(token),
             capabilities    |-> JNum(8189),
             properties      |-> IdentifyProperties,
             compress        |-> JBool(TRUE),
             large_threshold |-> JNum(LARGE_THRESHOLD),
             intents         |-> JNum(intents)]]

IdentifyPayload(shard, token, intents) ==
    [op |-> OpCodeNum("Identify"),
     d  |-> [token           |-> JStr(token),
             capabilities    |-> JNum(8189),
             properties      |-> IdentifyProperties,
             compress        |-> JBool(TRUE),
             large_threshold |-> JNum(LARGE_THRESHOLD)]]

----------------------------------------------------------------------------
(* send_presence_update *)

\* serde's Serialize for SystemTime: the duration since the Unix epoch, an
\* error for a time before it
SerializeSystemTime(now) ==
    IF now.secs < 0
    THEN Err("SystemTime must be later than UNIX_EPOCH")
    ELSE [secs_since_epoch |-> JNum(now.secs),
          nanos_since_epoch |-> JNum(now.nanos)]

\* json!({"name": x.name, "type": x.kind, "url": x.url})
ActivityJson(x) ==
    [name |-> JStr(x.name), type |-> JNum(x.kind), url |-> JOptStr(x.url)]

PresencePayloadCachedSince(current_presence, now) ==
    LET activity == current_presence[1]
        status == current_presence[2]
        since == SerializeSystemTime(now)
    IN IF IsErr(since) THEN Panic(since.err)
       ELSE [op |-> OpCodeNum("StatusUpdate"),
             d  |-> [afk    |-> JBool(FALSE),
                     since  |-> IF /\ lastCall.op = "send_presence_update"
                                   /\ lastFrame # None
                                THEN lastFrame.d.since
                                ELSE since,
                     status |-> JStr(StatusName(status)),
                     game   |-> IF IsSome(activity)
                                THEN ActivityJson(activity.some) ELSE JNull]]

PresencePayloadSkipNoGame(current_presence, now) ==
    LET activity == current_presence[1]
        status == current_presence[2]
        since == SerializeSystemTime(now)
        d == [afk    |-> JBool(FALSE),
              since  |-> since,
              status |-> JStr(StatusName(status))]
    IN IF IsErr(since) THEN Panic(since.err)
       ELSE [op |-> OpCodeNum("StatusUpdate"),
             d  |-> IF IsSome(activity)
                    THEN JsonInsert(d, "game", ActivityJson(activity.some))
                    ELSE d]

\* the json! literal of send_presence_update; json! unwraps the result of
\* serialising `now`, so a failed serialisation is a panic and no payload
PresencePayload(current_presence, now) ==
    LET activity == current_presence[1]
        status == current_presence[2]
        since == SerializeSystemTime(now)
    IN IF IsErr(since) THEN Panic(since.err)
       ELSE [op |-> OpCodeNum("StatusUpdate"),
             d  |-> [afk    |-> JBool(FALSE),
                     since  |-> since,
                     status |-> JStr(StatusName(status)),
                     game   |-> IF IsSome(activity)
                                THEN ActivityJson(activity.some) ELSE JNull]]

----------------------------------------------------------------------------
(* send_resume *)

ResumePayload(session_id, seq, token) ==
    [op |-> OpCodeNum("Resume"),
     d  |-> [session_id |-> JStr(session_id),
             seq        |-> JNum(seq),
             token      |-> JStr(token)]]

----------------------------------------------------------------------------
(* The call into the transport *)

SendJsonBuffered(reqs, n) ==
    <<n>> \o reqs

\* self.send_json(&payload) : the frame is handed to the transport when the
\* body reaches this expression
SendJsonCall(reqs, n) ==
    Append(reqs, n)

MapErrSwallow(report) ==
    Ok

\* .map_err(From::from) : From<Error> for Error, the error passes through
MapErr(report) ==
    report

\* send_chunk_guild, send_heartbeat and send_resume end in
\* .map_err(From::from); send_identify and send_presence_update return
\* send_json's result as it is
EndsInMapErr(op) ==
    op \in {"send_chunk_guild", "send_heartbeat", "send_resume"}

\* the body of a method up to its .await: the payload is built and, unless
\* building it panicked, handed to send_json, where the call suspends
Transmit(call, frame) ==
    /\ pc = "idle"
    /\ calls' = calls + 1
    /\ lastCall' = call
    /\ lastReport' = None
    /\ IF IsPanic(frame)
       THEN /\ lastFrame' = None
            /\ lastResult' = frame
            /\ requests' = requests
            /\ pc' = "idle"
       ELSE /\ lastFrame' = frame
            /\ lastResult' = None
            /\ requests' = SendJsonCall(requests, calls + 1)
            /\ pc' = "awaiting"
    /\ prevPresence' =
          IF /\ call.op = "send_presence_update"
             /\ ~IsPanic(frame)
             /\ lastCall.op = "send_presence_update"
             /\ lastFrame # None
             /\ lastCall.current_presence = call.current_presence
          THEN Some([now |-> lastCall.now, since |-> lastFrame.d.since])
          ELSE None
    /\ UNCHANGED <<shard_info, clock, output>>

----------------------------------------------------------------------------
(* Actions *)

Init ==
    /\ shard_info \in Shards
    /\ clock \in SystemTime
    /\ pc = "idle"
    /\ calls = 0
    /\ lastCall = [op |-> "none"]
    /\ lastFrame = None
    /\ lastReport = None
    /\ lastResult = None
    /\ requests = <<>>
    /\ output = <<>>
    /\ prevPresence = None

send_chunk_guild ==
    /\ calls < MaxCalls
    /\ \E guild_id \in GuildIds, limit \in Limits, filter \in ChunkGuildFilter,
          nonce \in Nonces :
          Transmit([op |-> "send_chunk_guild", guild_id |-> guild_id,
                    shard_info |-> shard_info, limit |-> limit,
                    filter |-> filter, nonce |-> nonce],
                   ChunkGuildPayload(guild_id, limit, filter, nonce))

send_heartbeat ==
    /\ calls < MaxCalls
    /\ \E seq \in Seqs :
          Transmit([op |-> "send_heartbeat", shard_info |-> shard_info,
                    seq |-> seq],
                   HeartbeatPayload(seq))

send_identify ==
    /\ calls < MaxCalls
    /\ \E token \in Tokens, intents \in Intents :
          Transmit([op |-> "send_identify", shard_info |-> shard_info,
                    token |-> token, intents |-> intents],
                   IdentifyPayload(shard_info, token, intents))

send_presence_update ==
    /\ calls < MaxCalls
    /\ \E current_presence \in CurrentPresence :
          Transmit([op |-> "send_presence_update", shard_info |-> shard_info,
                    current_presence |-> current_presence, now |-> clock],
                   PresencePayload(current_presence, clock))

send_resume ==
    /\ calls < MaxCalls
    /\ \E session_id \in SessionIds, seq \in ResumeSeqs, token \in Tokens :
          Transmit([op |-> "send_resume", shard_info |-> shard_info,
                    session_id |-> session_id, resume_seq |-> seq,
                    token |-> token],
                   ResumePayload(session_id, seq, token))

\* the suspended call is resumed: send_json's future is ready with the
\* transport's report and the method returns it
AwaitReady ==
    /\ pc = "awaiting"
    /\ \E outcome \in Outcomes :
          /\ lastReport' = outcome
          /\ lastResult' = IF EndsInMapErr(lastCall.op)
                           THEN MapErr(outcome) ELSE outcome
          /\ output' = SendJsonOutput(output, calls, outcome)
    /\ pc' = "idle"
    /\ UNCHANGED <<shard_info, clock, calls, lastCall, lastFrame, requests,
                   prevPresence>>

\* the caller drops the suspended call's future: the call returns nothing
AwaitDropped ==
    /\ pc = "awaiting"
    /\ \E delivered \in BOOLEAN :
          output' = SendJsonDropped(output, calls, delivered)
    /\ pc' = "idle"
    /\ UNCHANGED <<shard_info, clock, calls, lastCall, lastFrame, lastReport,
                   lastResult, requests, prevPresence>>

\* the wall clock moves, between calls and while a call is suspended;
\* SystemTime is not monotonic, and two calls with no Tick between them read
\* the same value
Tick ==
    /\ \E t \in SystemTime \ {clock} : clock' = t
    /\ UNCHANGED <<shard_info, pc, calls, lastCall, lastFrame, lastReport,
                   lastResult, requests, output, prevPresence>>

Next ==
    \/ send_chunk_guild
    \/ send_heartbeat
    \/ send_identify
    \/ send_presence_update
    \/ send_resume
    \/ AwaitReady
    \/ AwaitDropped
    \/ Tick

Spec == Init /\ [][Next]_vars

----------------------------------------------------------------------------
(* Properties *)

Range(seq) == {seq[i] : i \in 1..Len(seq)}
\* the last call was of method `op` and handed a frame to send_json
Last(op) == calls > 0 /\ lastCall.op = op /\ lastFrame # None

\* C1: the body of a send_chunk_guild frame holds exactly one of `query` and
\* `user_ids`: None gives query "" and no user_ids, Query(text) gives query
\* text and no user_ids, UserIds(ids) gives user_ids and no query.
C1_FilterFieldsExclusive ==
    Last("send_chunk_guild") =>
        LET d == lastFrame.d
            filter == lastCall.filter
            hasQuery == "query" \in DOMAIN d
            hasUserIds == "user_ids" \in DOMAIN d
        IN /\ hasQuery # hasUserIds
           /\ filter.tag = "None" =>
                 hasQuery /\ ~hasUserIds /\ d["query"] = JStr("")
           /\ filter.tag = "Query" =>
                 hasQuery /\ ~hasUserIds /\ d["query"] = JStr(filter.query)
           /\ filter.tag = "UserIds" => hasUserIds /\ ~hasQuery

C1_Witness ==
    /\ Last("send_chunk_guild")
    /\ lastCall.filter.tag = "None"
    /\ "query" \in DOMAIN lastFrame.d

\* C2: for UserIds(ids) the `user_ids` array has the length of ids and, at
\* every position, the raw identifier of the id at that position.
C2_UserIdsInCallerOrder ==
    (Last("send_chunk_guild") /\ lastCall.filter.tag = "UserIds") =>
        LET ids == lastCall.filter.user_ids
            d == lastFrame.d
        IN /\ "user_ids" \in DOMAIN d
           /\ "arr" \in DOMAIN d["user_ids"]
           /\ Len(d["user_ids"].arr) = Len(ids)
           /\ \A i \in 1..Len(ids) : d["user_ids"].arr[i] = ids[i].raw

C2_Witness ==
    /\ Last("send_chunk_guild")
    /\ lastCall.filter.tag = "UserIds"
    /\ lastCall.filter.user_ids = <<UserId(3), UserId(1), UserId(2)>>
    /\ lastFrame.d["user_ids"] = JArr(<<3, 1, 2>>)

GuildIdDecimal == (7 :> "7") @@ (1907 :> "1907")

\* C3: every send_chunk_guild body holds `limit` (0 when absent, else the
\* value), `nonce` ("" when absent, else the string) and `guild_id` as the
\* decimal string of the identifier, whatever the filter.
C3_LimitNonceGuildId ==
    Last("send_chunk_guild") =>
        LET d == lastFrame.d
            limit == lastCall.limit
            nonce == lastCall.nonce
        IN /\ {"guild_id", "limit", "nonce"} \subseteq DOMAIN d
           /\ d["limit"] = JNum(IF limit = None THEN 0 ELSE limit.some)
           /\ d["nonce"] = JStr(IF nonce = None THEN "" ELSE nonce.some)
           /\ d["guild_id"] = JStr(GuildIdDecimal[lastCall.guild_id])

C3_Witness ==
    /\ Last("send_chunk_guild")
    /\ lastCall.limit = None
    /\ lastCall.nonce = None
    /\ lastCall.guild_id = 1907
    /\ lastCall.filter.tag = "UserIds"

\* C4: a heartbeat frame always has the key `d`, holding null when the
\* sequence number is absent and the bare number n when it is n; null is
\* not 0.
C4_HeartbeatBareSeq ==
    Last("send_heartbeat") =>
        /\ "d" \in DOMAIN lastFrame
        /\ lastCall.seq = None => lastFrame.d = JNull
        /\ \A n \in {0, 42} : lastCall.seq = Some(n) => lastFrame.d = JNum(n)
        /\ lastFrame.d # JNum(0) \/ lastCall.seq = Some(0)

C4_Witness ==
    /\ Last("send_heartbeat")
    /\ lastCall.seq = None
    /\ lastFrame.d = JNull

\* C5: after n calls the transport has received exactly n send requests,
\* one per call, failed sends included.
C5_OneSendPerCall ==
    /\ Len(requests) = calls
    /\ \A n \in 1..calls : Cardinality({i \in 1..Len(requests) : requests[i] = n}) = 1

\* C6: a call returns a failure exactly when the transport's send reported
\* one, the failure returned is the one reported, and the frame of a call
\* that returned a failure is not in the transport's output.
C6_FailurePropagated ==
    /\ IsErr(lastResult) <=> IsErr(lastReport)
    /\ IsErr(lastResult) => lastResult = lastReport
    /\ IsErr(lastResult) => calls \notin Range(output)
    /\ (pc = "idle" /\ lastReport = Ok) => lastResult = Ok

C6_Witness ==
    /\ pc = "idle"
    /\ lastResult = Err("Io")
    /\ lastReport = Err("Io")
    /\ lastCall.op = "send_heartbeat"

\* C7: frames are handed to the transport in call order: the request of an
\* earlier call precedes the request of a later call, and the newest frame
\* is the last one handed over.
C7_CallOrder ==
    /\ Range(requests) \subseteq 1..calls
    /\ \A i, j \in 1..Len(requests) : i < j => requests[i] < requests[j]
    /\ \A i, j \in 1..Len(output) : i < j => output[i] < output[j]
    /\ (calls > 0 /\ lastFrame # None) => requests[Len(requests)] = calls

C7_Witness ==
    /\ Len(requests) >= 2
    /\ Len(output) >= 2
    /\ pc = "idle"

SinceOf(t) ==
    [secs_since_epoch |-> JNum(t.secs), nanos_since_epoch |-> JNum(t.nanos)]

\* C8 as stated: two consecutive send_presence_update calls with identical
\* input carry different `since` values.
C8_SinceAlwaysDiffers ==
    (Last("send_presence_update") /\ IsSome(prevPresence)) =>
        lastFrame.d.since # prevPresence.some.since

\* C8 amended: in every frame send_presence_update hands over, `since` is
\* the clock reading taken inside that call, and two consecutive calls with
\* identical input carry different `since` values whenever the clock reading
\* changed between them.
C8_SinceSampledPerCall ==
    Last("send_presence_update") =>
        /\ lastFrame.d.since = SinceOf(lastCall.now)
        /\ (IsSome(prevPresence) /\ prevPresence.some.now # lastCall.now) =>
              lastFrame.d.since # prevPresence.some.since

C8_Witness ==
    /\ Last("send_presence_update")
    /\ IsSome(prevPresence)
    /\ prevPresence.some.now # lastCall.now

IdentifyBodyKeys ==
    {"token", "capabilities", "properties", "compress", "large_threshold"}

\* C9: the Identify frame is the same for every intents value and shard
\* label given the token, no field of it holds the intents value, and
\* capabilities, properties, compress and large_threshold are fixed.
C9_IdentifyDependsOnTokenOnly ==
    Last("send_identify") =>
        LET d == lastFrame.d IN
        /\ \A s \in Shards, i \in Intents :
              IdentifyPayload(s, lastCall.token, i) = lastFrame
        /\ DOMAIN d = IdentifyBodyKeys
        /\ \A k \in DOMAIN d : d[k] # JNum(lastCall.intents)
        /\ d.token = JStr(lastCall.token)
        /\ d.capabilities = JNum(8189)
        /\ d.compress = JBool(TRUE)
        /\ d.large_threshold = JNum(LARGE_THRESHOLD)
        /\ d.properties = IdentifyProperties

C9_Witness ==
    /\ Last("send_identify")
    /\ lastCall.intents = 513
    /\ lastCall.token = "tok"
    /\ shard_info = <<1, 2>>

RenderedActivity(a) ==
    [name |-> JStr(a.name), type |-> JNum(a.kind),
     url |-> IF a.url = None THEN JNull ELSE JStr(a.url.some)]

\* C10 as stated: afk is false, status is the status's name, game is the
\* rendered activity when there is one and the key is missing otherwise.
C10_GameAbsentWithoutActivity ==
    Last("send_presence_update") =>
        LET d == lastFrame.d
            activity == lastCall.current_presence[1]
        IN /\ d.afk = JBool(FALSE)
           /\ d.status = JStr(StatusName(lastCall.current_presence[2]))
           /\ IsSome(activity) =>
                 "game" \in DOMAIN d /\ d["game"] = RenderedActivity(activity.some)
           /\ ~IsSome(activity) => "game" \notin DOMAIN d

\* C10 amended: afk is false, status is the status's name, game is the
\* rendered activity when there is one and is present holding null
\* otherwise.
C10_GameNullWithoutActivity ==
    Last("send_presence_update") =>
        LET d == lastFrame.d
            activity == lastCall.current_presence[1]
        IN /\ d.afk = JBool(FALSE)
           /\ d.status = JStr(StatusName(lastCall.current_presence[2]))
           /\ "game" \in DOMAIN d
           /\ IsSome(activity) => d["game"] = RenderedActivity(activity.some)
           /\ ~IsSome(activity) => d["game"] = JNull

C10_Witness ==
    /\ Last("send_presence_update")
    /\ ~IsSome(lastCall.current_presence[1])
    /\ lastFrame.d.game = JNull

====
